---- MODULE Spec2Model ----
(***************************************************************************)
(* Model of the kwantrace transformation stack: Transformation variants,   *)
(* the Transformable list with its cached matrices, Ray, and the           *)
(* Renderable / Primitive queries layered on them.                         *)
(*                                                                         *)
(* Python floats are modelled as exact fractions: a numpy array is        *)
(* [n |-> integers, d |-> common denominator] in lowest terms, a scalar a  *)
(* pair <<n, d>>; a denominator 0 marks an array holding non-finite        *)
(* entries.  A call either returns a value, Ok(v), or raises, Raise(e).    *)
(***************************************************************************)
EXTENDS Integers, Sequences, FiniteSets, TLC

VARIABLES cls, tlist, M_rb, M_br, N_rb, pigment, inside_out, prepared,
          ray, trans, parent, threads, ret

vars == <<cls, tlist, M_rb, M_br, N_rb, pigment, inside_out, prepared,
          ray, trans, parent, threads, ret>>

-----------------------------------------------------------------------------
(* Bounds *)

MaxLen == 2

MaxCoord == 1

MaxDt == 2

MaxDepth == 2

\* concurrent traces of the render phase
MaxTraces == 2

-----------------------------------------------------------------------------
(* Call results *)

Ok(v) == [exc |-> "none", val |-> v]

Raise(e) == [exc |-> e, val |-> <<>>]

\* an attribute that was never assigned
NoAttr == <<>>

None == "None"

-----------------------------------------------------------------------------
(* Exact arithmetic standing for Python float arithmetic.                    *)
(* An array is [n |-> integers, d |-> common denominator], in lowest terms   *)
(* with d > 0: a (4,1) column vector has a 4-tuple n, a (4,4) array a        *)
(* 4-tuple of rows.  A scalar is a pair <<numerator, denominator>>.          *)

Abs(n) == IF n < 0 THEN -n ELSE n

RECURSIVE GCD(_, _)
GCD(a, b) == IF b = 0 THEN a ELSE GCD(b, a % b)

Idx == 1..4

G4(v) == GCD(GCD(Abs(v[1]), Abs(v[2])), GCD(Abs(v[3]), Abs(v[4])))

Vec(n, d) ==
    IF d = 1 THEN [n |-> n, d |-> 1]
    ELSE LET g == GCD(G4(n), Abs(d)) * (IF d < 0 THEN -1 ELSE 1)
         IN  [n |-> [i \in Idx |-> n[i] \div g], d |-> d \div g]

Mat(n, d) ==
    IF d = 1 THEN [n |-> n, d |-> 1]
    ELSE LET g == GCD(G4([i \in Idx |-> G4(n[i])]), Abs(d))
                  * (IF d < 0 THEN -1 ELSE 1)
         IN  [n |-> [i \in Idx |-> [j \in Idx |-> n[i][j] \div g]], d |-> d \div g]

Q(n) == <<n, 1>>

RNorm(n, d) ==
    LET g == GCD(Abs(n), Abs(d)) * (IF d < 0 THEN -1 ELSE 1)
    IN  <<n \div g, d \div g>>

RLess(a, b) == a[1] * b[2] < b[1] * a[2]

-----------------------------------------------------------------------------
(* numpy arrays *)

identity4 ==
    [n |-> [i \in Idx |-> [j \in Idx |-> IF i = j THEN 1 ELSE 0]], d |-> 1]

\* an affine (4,4) array: linear part L and translation column D
Affine(L, D) ==
    [n |-> [i \in Idx |-> [j \in Idx |->
              IF i = 4 THEN (IF j = 4 THEN 1 ELSE 0)
              ELSE IF j = 4 THEN D[i] ELSE L[i][j]]],
     d |-> 1]

\* A @ B on (4,4) arrays
MatMul(A, B) ==
    Mat([i \in Idx |-> [j \in Idx |->
            A.n[i][1] * B.n[1][j] + A.n[i][2] * B.n[2][j]
          + A.n[i][3] * B.n[3][j] + A.n[i][4] * B.n[4][j]]],
        A.d * B.d)

\* A @ v on a (4,4) array and a (4,1) column
MatVec(A, v) ==
    IF A.d = 0 \/ v.d = 0 THEN [n |-> <<0, 0, 0, 0>>, d |-> 0]
    ELSE
    Vec([i \in Idx |->
            A.n[i][1] * v.n[1] + A.n[i][2] * v.n[2]
          + A.n[i][3] * v.n[3] + A.n[i][4] * v.n[4]],
        A.d * v.d)

\* A.T
Transpose(A) == [n |-> [i \in Idx |-> [j \in Idx |-> A.n[j][i]]], d |-> A.d]

\* a + b on columns
VecAdd(a, b) == Vec([i \in Idx |-> a.n[i] * b.d + b.n[i] * a.d], a.d * b.d)

\* a * s on a column and a scalar
VecScale(a, s) == Vec([i \in Idx |-> a.n[i] * s[1]], a.d * s[2])

Others(i) == SelectSeq(<<1, 2, 3, 4>>, LAMBDA k : k # i)

Det3(N, r, c) ==
      N[r[1]][c[1]] * (N[r[2]][c[2]] * N[r[3]][c[3]] - N[r[2]][c[3]] * N[r[3]][c[2]])
    - N[r[1]][c[2]] * (N[r[2]][c[1]] * N[r[3]][c[3]] - N[r[2]][c[3]] * N[r[3]][c[1]])
    + N[r[1]][c[3]] * (N[r[2]][c[1]] * N[r[3]][c[2]] - N[r[2]][c[2]] * N[r[3]][c[1]])

Cofactor(N, i, j) ==
    (IF (i + j) % 2 = 0 THEN 1 ELSE -1) * Det3(N, Others(i), Others(j))

Det4(N) ==
      N[1][1] * Cofactor(N, 1, 1) + N[1][2] * Cofactor(N, 1, 2)
    + N[1][3] * Cofactor(N, 1, 3) + N[1][4] * Cofactor(N, 1, 4)

\* np.linalg.inv: the inverse adj(A)/det(A), LinAlgError on a singular matrix
Inv(A) ==
    LET det == Det4(A.n)
    IN  IF det = 0 THEN Raise("LinAlgError")
        ELSE Ok(Mat([i \in Idx |-> [j \in Idx |-> A.d * Cofactor(A.n, j, i)]],
                    det))

-----------------------------------------------------------------------------
(* position_direction.py *)

Position(x, y, z) == [n |-> <<x, y, z, 1>>, d |-> 1]

Direction(x, y, z) == [n |-> <<x, y, z, 0>>, d |-> 1]

-----------------------------------------------------------------------------
(* transformation.py *)

Transformation == [kind |-> "Transformation"]

Translation(x, y, z) == [kind |-> "Translation", amount |-> <<x, y, z>>]

Scaling(x, y, z) == [kind |-> "Scaling", amount |-> <<x, y, z>>]

UniformScaling(s) == [kind |-> "UniformScaling", amount |-> s]

RotateScalar(quarters, axis) ==
    [kind |-> "RotateScalar", amount |-> 90 * quarters, axis |-> axis]

\* Translation.matrix: result[0,0:3]=self.amount[:] assigns the (3,1) array
\* self.amount to a slice of shape (3,), which numpy refuses to broadcast.
TranslationMatrix(t) == Raise("ValueError")

\* Scaling.matrix without the zero substitution on the z axis
ScalingMatrixNoSubstitution(t) ==
    LET s(k) == IF t.amount[k] # 0 \/ k = 3 THEN t.amount[k] ELSE 1
    IN  Ok([n |-> [i \in Idx |-> [j \in Idx |->
                    IF i # j THEN 0 ELSE IF i = 4 THEN 1 ELSE s(i)]],
            d |-> 1])

ScalingMatrix(t) ==
    LET s(k) == IF t.amount[k] # 0 THEN t.amount[k] ELSE 1
    IN  Ok([n |-> [i \in Idx |-> [j \in Idx |->
                    IF i # j THEN 0 ELSE IF i = 4 THEN 1 ELSE s(i)]],
            d |-> 1])

UniformScalingMatrix(t) ==
    LET s == IF t.amount # 0 THEN t.amount ELSE 1
    IN  Ok([n |-> [i \in Idx |-> [j \in Idx |->
                    IF i # j THEN 0 ELSE IF i = 4 THEN 1 ELSE s]],
            d |-> 1])

\* cosine and sine of a whole number of quarter turns, given in degrees
CosDeg(a) == CASE (a \div 90) % 4 = 0 -> 1
               [] (a \div 90) % 4 = 1 -> 0
               [] (a \div 90) % 4 = 2 -> -1
               [] (a \div 90) % 4 = 3 -> 0

SinDeg(a) == CASE (a \div 90) % 4 = 0 -> 0
               [] (a \div 90) % 4 = 1 -> 1
               [] (a \div 90) % 4 = 2 -> 0
               [] (a \div 90) % 4 = 3 -> -1

\* rot_axis(axis, angle): right-handed physical rotation about axis 0, 1 or 2,
\* in the plane of the two following axes (cyclically)
rot_axis(axis, a) ==
    LET p == ((axis + 1) % 3) + 1
        q == ((axis + 2) % 3) + 1
        c == CosDeg(a)
        s == SinDeg(a)
    IN  [i \in 1..3 |-> [j \in 1..3 |->
            CASE i = p /\ j = p -> c
              [] i = q /\ j = q -> c
              [] i = p /\ j = q -> -s
              [] i = q /\ j = p -> s
              [] OTHER -> IF i = j THEN 1 ELSE 0]]

RotateScalarMatrix(t) ==
    LET R == rot_axis(t.axis, t.amount)
    IN  Ok([n |-> [i \in Idx |-> [j \in Idx |->
                    IF i <= 3 /\ j <= 3 THEN R[i][j] ELSE identity4.n[i][j]]],
            d |-> 1])

\* RotateVector(Lx=90 qx, Ly=90 qy, Lz=90 qz), in degrees
RotateVector(qx, qy, qz) ==
    [kind |-> "RotateVector", amount |-> <<90 * qx, 90 * qy, 90 * qz>>]

\* A @ B on (3,3) arrays of integers
MatMul3(A, B) ==
    [i \in 1..3 |-> [j \in 1..3 |->
        A[i][1] * B[1][j] + A[i][2] * B[2][j] + A[i][3] * B[3][j]]]

\* RotateVector.matrix composing the other way round: x last, z first
RotateVectorMatrixReversed(t) ==
    LET r1 == rot_axis(2, t.amount[3])
        r2 == MatMul3(rot_axis(1, t.amount[2]), r1)
        r3 == MatMul3(rot_axis(0, t.amount[1]), r2)
    IN  Ok(Affine(r3, <<0, 0, 0>>))

RotateVectorMatrix(t) ==
    LET r1 == rot_axis(0, t.amount[1])
        r2 == MatMul3(rot_axis(1, t.amount[2]), r1)
        r3 == MatMul3(rot_axis(2, t.amount[3]), r2)
    IN  Ok(Affine(r3, <<0, 0, 0>>))

\* col_vector: a (3,1) column
col_vector(x, y, z) == [n |-> <<x, y, z>>, d |-> 1]

\* the number of rows of a column
Rows(a) == Len(a.n)

\* a column holding the non-finite 0/0; a denominator 0 marks an array that
\* holds non-finite entries
NaNCol(r) == [n |-> [i \in 1..r |-> 0], d |-> 0]

RECURSIVE GCDSeq(_)
GCDSeq(q) == IF q = <<>> THEN 0 ELSE GCD(Abs(Head(q)), GCDSeq(Tail(q)))

\* the column n/d in lowest terms
Col(n, d) ==
    LET g == GCD(GCDSeq(n), Abs(d)) * (IF d < 0 THEN -1 ELSE 1)
    IN  [n |-> [i \in 1..Len(n) |-> n[i] \div g], d |-> d \div g]

\* a - b on columns: the shapes (4,1) and (3,1) do not broadcast
VecSub(a, b) ==
    IF Rows(a) # Rows(b) THEN Raise("ValueError")
    ELSE Ok(Col([i \in 1..Rows(a) |-> a.n[i] * b.d - b.n[i] * a.d], a.d * b.d))

\* kwanmath.vector.vcross: the cross product of the three leading components,
\* a (3,1) column
vcross(a, b) ==
    IF a.d = 0 \/ b.d = 0 THEN NaNCol(3)
    ELSE Col(<<a.n[2] * b.n[3] - a.n[3] * b.n[2],
               a.n[3] * b.n[1] - a.n[1] * b.n[3],
               a.n[1] * b.n[2] - a.n[2] * b.n[1]>>, a.d * b.d)

RECURSIVE SumSq(_)
SumSq(q) == IF q = <<>> THEN 0 ELSE Head(q) * Head(q) + SumSq(Tail(q))

\* the square root of a perfect square
ISqrt(q) == CHOOSE r \in 0..q : r * r = q

\* kwanmath.vector.vnormalize, v / sqrt(sum(v*v)), exactly, for a column whose
\* length is rational; numpy divides the zero column by zero and gives 0/0
vlengthNormalize(v) ==
    IF v.d = 0 \/ SumSq(v.n) = 0 THEN NaNCol(Rows(v))
    ELSE Col(v.n, ISqrt(SumSq(v.n)))

\* np.hstack of three columns, which must have the same number of rows
hstack(c1, c2, c3) ==
    IF Rows(c1) # Rows(c2) \/ Rows(c2) # Rows(c3) THEN Raise("ValueError")
    ELSE Ok(<<c1, c2, c3>>)

\* R @ B.T for two arrays given by their three columns
MatMulTransposed(R, B) ==
    IF \E k \in 1..3 : R[k].d = 0 \/ B[k].d = 0
    THEN [rows |-> Rows(R[1]), cols |-> Rows(B[1]), n |-> <<>>, d |-> 0]
    ELSE LET D == R[1].d * B[1].d * R[2].d * B[2].d * R[3].d * B[3].d
             term(k, i, j) == R[k].n[i] * B[k].n[j] * (D \div (R[k].d * B[k].d))
         IN  [rows |-> Rows(R[1]), cols |-> Rows(B[1]),
              n |-> [i \in 1..Rows(R[1]) |-> [j \in 1..Rows(B[1]) |->
                        term(1, i, j) + term(2, i, j) + term(3, i, j)]],
              d |-> D]

\* a (4,4) array whose upper-left block is non-finite
NaNMatrix ==
    [n |-> [i \in Idx |-> [j \in Idx |-> IF i = 4 /\ j = 4 THEN 1 ELSE 0]],
     d |-> 0]

\* M_rb=np.identity(4); M_rb[0:3,0:3]=P, which needs P of shape (3,3)
SetRotationBlock(P) ==
    IF P.rows # 3 \/ P.cols # 3 THEN Raise("ValueError")
    ELSE IF P.d = 0 THEN Ok(NaNMatrix)
    ELSE Ok(Mat([i \in Idx |-> [j \in Idx |->
                    IF i <= 3 /\ j <= 3 THEN P.n[i][j]
                    ELSE IF i = j THEN P.d ELSE 0]], P.d))

calcPointToward(p_b, p_r, t_b, t_r) ==
    LET s_r == vlengthNormalize(vcross(p_r, t_r))
        u_r == vlengthNormalize(vcross(p_r, s_r))
        R == hstack(vlengthNormalize(p_r), s_r, u_r)
        s_b == vlengthNormalize(vcross(p_b, t_b))
        u_b == vlengthNormalize(vcross(p_b, s_b))
        B == hstack(vlengthNormalize(p_b), s_b, u_b)
    IN  IF R.exc # "none" THEN R
        ELSE IF B.exc # "none" THEN B
        ELSE SetRotationBlock(MatMulTransposed(R.val, B.val))

PointToward(p_b, p_r, t_b, t_r) ==
    [kind |-> "PointToward", p_b |-> p_b, p_r |-> p_r, t_b |-> t_b, t_r |-> t_r]

PointTowardMatrix(t) == calcPointToward(t.p_b, t.p_r, t.t_b, t.t_r)

\* an argument left out (None)
NoArg == [n |-> <<>>, d |-> 0]

\* Translation(Lamount): self.amount = Lamount.reshape(3, 1)
TranslationOfArray(a) ==
    IF Rows(a) # 3 THEN Raise("ValueError")
    ELSE Ok([kind |-> "Translation", amount |-> a.n])

calcLocationLookat(location, look_at, p_b, t_b, t_r) ==
    LET pb == IF p_b = NoArg THEN Direction(0, 0, 1) ELSE p_b
        tb == IF t_b = NoArg THEN Direction(0, 1, 0) ELSE t_b
        tr == IF t_r = NoArg THEN Direction(0, 0, -1) ELSE t_r
        p_r == VecSub(look_at, location)
    IN  IF p_r.exc # "none" THEN p_r
        ELSE LET result == calcPointToward(pb, p_r.val, tb, tr)
                 T == TranslationOfArray(location)
             IN  IF result.exc # "none" THEN result
                 ELSE IF T.exc # "none" THEN T
                 ELSE IF TranslationMatrix(T.val).exc # "none"
                      THEN TranslationMatrix(T.val)
                 ELSE Ok(MatMul(TranslationMatrix(T.val).val, result.val))

LocationLookat(location, look_at, p_b, t_b, t_r) ==
    [kind |-> "LocationLookat", location |-> location, look_at |-> look_at,
     p_b |-> IF p_b = NoArg THEN Direction(0, 0, 1) ELSE p_b,
     t_b |-> IF t_b = NoArg THEN Direction(0, 1, 0) ELSE t_b,
     t_r |-> IF t_r = NoArg THEN Direction(0, 0, -1) ELSE t_r]

LocationLookatMatrix(t) ==
    calcLocationLookat(t.location, t.look_at, t.p_b, t.t_b, t.t_r)

Matrix(t) ==
    CASE t.kind = "Transformation" -> Raise("NotImplementedError")
      [] t.kind = "Translation" -> TranslationMatrix(t)
      [] t.kind = "Scaling" -> ScalingMatrix(t)
      [] t.kind = "UniformScaling" -> UniformScalingMatrix(t)
      [] t.kind = "RotateScalar" -> RotateScalarMatrix(t)
      [] t.kind = "RotateVector" -> RotateVectorMatrix(t)
      [] t.kind = "PointToward" -> PointTowardMatrix(t)
      [] t.kind = "LocationLookat" -> LocationLookatMatrix(t)

-----------------------------------------------------------------------------
(* kwanmath.vector.vnormalize: v / sqrt(sum(v*v, axis=0)).                   *)
(* A unit vector u = v/|v| of a rational v is represented by the shortest    *)
(* integer vector of the same direction (the representation is one-to-one on *)
(* unit vectors of rational direction); the zero vector, which numpy divides *)
(* by zero, gives the non-finite 0/0 in every component.                     *)

NaN4 == [n |-> <<0, 0, 0, 0>>, d |-> 0]

vnormalize(v) ==
    LET g == G4(v.n)
    IN  IF g = 0 THEN NaN4 ELSE [n |-> [i \in Idx |-> v.n[i] \div g], d |-> 1]

\* vnormalize of a (4,4) array normalises each column (axis 0): the result
\* is given as its four normalised columns
vnormalizeColumns(A) ==
    [j \in Idx |-> vnormalize([n |-> [i \in Idx |-> A.n[i][j]], d |-> 1])]

\* (-1 or 1) * array on a normalised column
SignTimes(s, a) == [n |-> [i \in Idx |-> s * a.n[i]], d |-> a.d]

\* numpy broadcasting of (4,4) * (4,1): out[i][j] = A[i][j] * c[i]
BroadcastMul(A, c) ==
    Mat([i \in Idx |-> [j \in Idx |-> A.n[i][j] * c.n[i]]], A.d * c.d)

-----
(* transformable.py *)

\* combine() multiplying on the wrong side: result @ trans.matrix()
CombineStepSwapped(m, result) == MatMul(result, m)

CombineStep(m, result) == MatMul(m, result)

RECURSIVE CombineFrom(_, _, _)
CombineFrom(l, k, result) ==
    IF k > Len(l) THEN Ok(result)
    ELSE LET m == Matrix(l[k])
         IN  IF m.exc # "none" THEN m
             ELSE CombineFrom(l, k + 1, CombineStep(m.val, result))

combine(l) == CombineFrom(l, 1, identity4)

InverseMatrix(M) == Inv(M)

\* prepareRender forgetting the transpose: self.N_rb = self.M_br
NormalMatrixNoTranspose(Mbr) == Mbr

NormalMatrix(Mbr) == Transpose(Mbr)

\* Transformable.prepareRender on list l of an object whose cached attributes
\* are cache = <<M_rb, M_br, N_rb>>: the outcome and the attributes afterwards
TransformablePrepareRender(l, cache) ==
    CHOOSE out \in
        { IF c.exc # "none" THEN [exc |-> c.exc, cache |-> cache]
          ELSE CHOOSE o \in
                 { IF inv.exc # "none"
                   THEN [exc |-> inv.exc, cache |-> <<c.val, cache[2], cache[3]>>]
                   ELSE [exc |-> "none",
                         cache |-> <<c.val, inv.val, NormalMatrix(inv.val)>>]
                   : inv \in {InverseMatrix(c.val)} } : TRUE
          : c \in {combine(l)} } : TRUE

-----------------------------------------------------------------------------
(* ray.py *)

Ray(r0, v) == [r0 |-> r0, v |-> v]

\* Ray.__call__
RayCall(r, t) == VecAdd(r.r0, VecScale(r.v, Q(t)))

\* Ray.__add__ scaling the direction too: Ray(self.r0+self.v*dt, self.v*dt)
RayAddScaledDirection(r, dt) ==
    Ray(VecAdd(r.r0, VecScale(r.v, Q(dt))), VecScale(r.v, Q(dt)))

\* Ray.__add__
RayAdd(r, dt) == Ray(VecAdd(r.r0, VecScale(r.v, Q(dt))), r.v)

\* Ray.__radd__
RayRAdd(r, dt) == Ray(VecAdd(r.r0, VecScale(r.v, Q(dt))), r.v)

\* the attributes Ray.__init__ gives an instance
RayAttrs == {"r0", "v"}

\* Ray.__rmatmul__: Ray(M @ self.R0, M @ self.v)
RayRMatMul(r, M) ==
    IF "R0" \notin RayAttrs THEN Raise("AttributeError")
    ELSE Ok(Ray(MatVec(M, r.r0), MatVec(M, r.v)))

-----------------------------------------------------------------------------
(* field.py and renderable.py *)

\* A freshly constructed pigment: a Field is a Transformable of its own, with
\* an empty list and no cached attributes
NewField ==
    [kind |-> "Field", list |-> <<>>, cache |-> <<NoAttr, NoAttr, NoAttr>>,
     value |-> ""]

\* ConstantColor(Lvalue), freshly constructed
ConstantColor(v) ==
    [kind |-> "ConstantColor", list |-> <<>>,
     cache |-> <<NoAttr, NoAttr, NoAttr>>, value |-> v]

\* self.pigment never assigned, and self.pigment = None
NoPigmentAttr ==
    [kind |-> "NoAttr", list |-> <<>>, cache |-> <<NoAttr, NoAttr, NoAttr>>,
     value |-> ""]

NonePigment ==
    [kind |-> "None", list |-> <<>>, cache |-> <<NoAttr, NoAttr, NoAttr>>,
     value |-> ""]

\* the names a Field, ColorField or ConstantColor instance resolves
FieldAttrs == {"combine", "prepareRender", "append", "_fieldLocal", "__call__"}

\* the result size ColorField.__init__ passes to Field.__init__
ColorFieldN == 5

\* the instance attributes the constructor assigns: ColorField() (kind
\* "Field") runs Field.__init__, ConstantColor.__init__ assigns _value only
FieldInstanceAttrs(kind) ==
    CASE kind = "Field" -> {"N"}
      [] kind = "ConstantColor" -> {"_value"}

\* a read of self.N
FieldN(f) ==
    IF "N" \in FieldInstanceAttrs(f.kind) THEN Ok(ColorFieldN)
    ELSE Raise("AttributeError")

\* _fieldLocal: abstract in Field, the stored value in ConstantColor
FieldLocal(f, rLocal) ==
    IF f.kind = "ConstantColor" THEN Ok(f.value)
    ELSE Raise("NotImplementedError")

\* Field.__call__: self.fieldLocal(self.M_br @ r)
FieldCall(f, r) ==
    IF "fieldLocal" \notin FieldAttrs THEN Raise("AttributeError")
    ELSE IF f.cache[2] = NoAttr THEN Raise("AttributeError")
    ELSE FieldLocal(f, MatVec(f.cache[2], r))

\* self.parent never assigned, and self.parent = None; otherwise the parent
\* attribute refers to the first object of chain, whose own parent attribute
\* refers to the second, and so on
NoParentAttr == [attr |-> "NoAttr", chain |-> <<>>]

NoneParent == [attr |-> "None", chain |-> <<>>]

\* a Renderable as evalPigment sees it: its pigment attribute, and whether
\* its parent attribute is missing, None or an object
Node(pig, par) == [pigment |-> pig, parent |-> par]

\* Renderable.evalPigment on the k-th object of a chain of Renderables
RECURSIVE EvalPigmentFrom(_, _, _)
EvalPigmentFrom(chain, k, r) ==
    IF chain[k].pigment.kind = "NoAttr" THEN Raise("AttributeError")
    ELSE IF chain[k].pigment.kind # "None" THEN FieldCall(chain[k].pigment, r)
    ELSE IF chain[k].parent = "NoAttr" THEN Raise("AttributeError")
    ELSE IF chain[k].parent # "None" THEN EvalPigmentFrom(chain, k + 1, r)
    ELSE Ok(None)

\* Renderable.evalPigment on an object with pigment pig and parent par
RenderableEvalPigment(pig, par, r) ==
    EvalPigmentFrom(<<Node(pig, par.attr)>> \o par.chain, 1, r)

\* Primitive: the class itself, whose three hooks are the abstract ones.
\* Shape: a subclass of Primitive that overrides the three documented hooks
\* for the half-space z < 0 bounded by the plane z = 0
Primitives == {"Primitive", "Shape"}

ClassAttrs(c) ==
    CASE c = "Transformable" -> {"combine", "prepareRender", "append"}
      [] c \in Primitives -> {"combine", "prepareRender", "append", "setParent",
                              "setPigment", "evalPigment", "intersect", "normal",
                              "inside", "_intersectLocal", "_normalLocal",
                              "_insideLocal"}

\* a call of one of the hooks _intersectLocal, _normalLocal, _insideLocal on
\* an object of class c, v being what the override of Shape returns
Hook(c, v) == IF c = "Shape" THEN Ok(v) ELSE Raise("NotImplementedError")

\* Shape._insideLocal
insideLocal(rLocal) == rLocal.n[3] < 0

\* Shape._normalLocal
normalLocal(rLocal) == Direction(0, 0, 1)

\* Shape._intersectLocal: (found, t) with t the root of r0.z + v.z t = 0
intersectLocal(rayLocal) ==
    IF rayLocal.v.n[3] = 0 THEN <<FALSE, Q(0)>>
    ELSE LET t == RNorm(-(rayLocal.r0.n[3] * rayLocal.v.d),
                        rayLocal.r0.d * rayLocal.v.n[3])
         IN  IF RLess(Q(0), t) THEN <<TRUE, t>> ELSE <<FALSE, t>>

\* Renderable.append on an object of class c: the outcome after
\* super().append(transform) has extended the list
RenderableAppend(c, pig) ==
    IF c = "Transformable" THEN Ok(None)
    ELSE IF pig.kind = "NoAttr" THEN Raise("AttributeError")
    ELSE IF pig.kind # "None" THEN Raise("AttributeError")
    ELSE Ok(None)

\* Primitive.inside
PrimitiveInside(c, io, Mbr, r) ==
    IF "insideLocal" \notin ClassAttrs(c) THEN Raise("AttributeError")
    ELSE IF Mbr = NoAttr THEN Raise("AttributeError")
    ELSE LET h == Hook(c, insideLocal(MatVec(Mbr, r)))
         IN  IF h.exc # "none" THEN h ELSE Ok(io # h.val)

\* self.N_rb * n in Primitive.normal: the elementwise product of a (4,4) and
\* a (4,1) array, which numpy broadcasts to a (4,4) array
NormalProduct(Nrb, n) == BroadcastMul(Nrb, n)

\* Primitive.normal; the result carries its numpy shape, a (4,4) result being
\* given by its four normalised columns
PrimitiveNormal(c, io, Nrb, Mbr, r) ==
    IF Nrb = NoAttr \/ Mbr = NoAttr THEN Raise("AttributeError")
    ELSE IF Hook(c, <<>>).exc # "none" THEN Hook(c, <<>>)
    ELSE Ok([shape |-> <<4, 4>>,
             value |-> [j \in Idx |->
                 SignTimes(IF io THEN -1 ELSE 1,
                     vnormalizeColumns(
                         NormalProduct(Nrb, normalLocal(MatVec(Mbr, r))))[j])]])

\* Primitive.intersect(ray, t)
PrimitiveIntersect(c, Mbr, wray) ==
    IF "intersectLocal" \notin ClassAttrs(c) THEN Raise("AttributeError")
    ELSE IF Mbr = NoAttr THEN Raise("AttributeError")
    ELSE LET lr == RayRMatMul(wray, Mbr)
         IN  IF lr.exc # "none" THEN lr
             ELSE IF Hook(c, <<>>).exc # "none" THEN Hook(c, <<>>)
             ELSE IF intersectLocal(lr.val)[1] THEN Ok("self") ELSE Ok(None)

-----------------------------------------------------------------------------
(* Inputs *)

Coords == (-MaxCoord)..MaxCoord

Transformations ==
    { Translation(1, 2, 3), Scaling(2, 0, 1), UniformScaling(2),
      RotateScalar(1, 0), RotateScalar(1, 2) }

QueryPoints == { Position(0, 0, -1), Position(1, 0, 1), Position(-1, 2, 0) }

QueryRays == { Ray(Position(0, 0, 1), Direction(0, 0, -1)),
               Ray(Position(1, 0, 1), Direction(1, 1, 0)) }

NoRay == Ray(Position(0, 0, 0), Direction(0, 0, 1))

NoTrans == Transformation

NoCall == [op |-> "none", arg |-> <<>>, exc |-> "none", val |-> <<>>]

\* a trace that has read none of the cached attributes yet
NoTrace == [pc |-> 0, regs |-> <<NoAttr, NoAttr, NoAttr>>, exc |-> "none"]

\* no prepareRender under way, no trace begun
NoThreads ==
    [prep |-> 0, traces |-> [i \in 1..MaxTraces |-> NoTrace], disciplined |-> TRUE]

Ret(op, arg, r) == [op |-> op, arg |-> arg, exc |-> r.exc, val |-> r.val]

-----------------------------------------------------------------------------
(* The life of one Transformable: a plain Transformable or a Shape *)

Init ==
    /\ cls \in {"Transformable"} \cup Primitives
    /\ tlist = <<>>
    /\ M_rb = NoAttr
    /\ M_br = NoAttr
    /\ N_rb = NoAttr
    /\ pigment = NoPigmentAttr
    /\ inside_out = FALSE
    /\ prepared = [set |-> FALSE, list |-> <<>>]
    /\ ray = NoRay
    /\ trans = NoTrans
    /\ parent = NoParentAttr
    /\ threads = NoThreads
    /\ ret = NoCall

\* an append that recomputes the cached matrices of a prepared object
DoAppendRecompute(T) ==
    /\ Len(tlist) < MaxLen
    /\ tlist' = Append(tlist, T)
    /\ ret' = Ret("append", T, RenderableAppend(cls, pigment))
    /\ \E new \in {TransformablePrepareRender(Append(tlist, T), <<M_rb, M_br, N_rb>>)} :
          IF M_rb = NoAttr THEN UNCHANGED <<threads, M_rb, M_br, N_rb>>
          ELSE M_rb' = new.cache[1] /\ M_br' = new.cache[2] /\ N_rb' = new.cache[3]
    /\ UNCHANGED <<threads, cls, pigment, inside_out, prepared, ray, trans, parent>>

DoAppend(T) ==
    /\ Len(tlist) < MaxLen
    /\ tlist' = Append(tlist, T)
    /\ ret' = Ret("append", T, RenderableAppend(cls, pigment))
    /\ UNCHANGED <<threads, cls, M_rb, M_br, N_rb, pigment, inside_out, prepared, ray, trans, parent>>

\* Renderable.prepareRender (Transformable.prepareRender for a plain one)
DoPrepareRender ==
    \E own \in {TransformablePrepareRender(tlist, <<M_rb, M_br, N_rb>>)},
       pig \in {TransformablePrepareRender(pigment.list, pigment.cache)} :
        /\ M_rb' = own.cache[1]
        /\ M_br' = own.cache[2]
        /\ N_rb' = own.cache[3]
        /\ prepared' = IF own.cache[1] # M_rb \/ own.exc = "none"
                       THEN [set |-> TRUE, list |-> tlist] ELSE prepared
        /\ IF own.exc # "none" \/ cls = "Transformable"
           THEN /\ ret' = Ret("prepareRender", <<>>,
                               IF own.exc = "none" THEN Ok(None) ELSE Raise(own.exc))
                /\ UNCHANGED pigment
           ELSE IF pigment.kind = "NoAttr"
           THEN /\ ret' = Ret("prepareRender", <<>>, Raise("AttributeError"))
                /\ UNCHANGED pigment
           ELSE IF pigment.kind = "None"
           THEN /\ ret' = Ret("prepareRender", <<>>, Ok(None))
                /\ UNCHANGED pigment
           ELSE /\ ret' = Ret("prepareRender", <<>>,
                               IF pig.exc = "none" THEN Ok(None) ELSE Raise(pig.exc))
                /\ pigment' = [pigment EXCEPT !.cache = pig.cache]
        /\ UNCHANGED <<threads, cls, tlist, inside_out, ray, trans, parent>>

\* a call of combine() on the current list
DoCombine ==
    /\ ret' = Ret("combine", <<>>, combine(tlist))
    /\ UNCHANGED <<threads, cls, tlist, M_rb, M_br, N_rb, pigment, inside_out, prepared,
                 ray, trans, parent>>

DoSetPigment(p) ==
    /\ cls \in Primitives
    /\ pigment' = p
    /\ ret' = Ret("setPigment", <<>>, Ok(None))
    /\ UNCHANGED <<threads, cls, tlist, M_rb, M_br, N_rb, inside_out, prepared, ray, trans, parent>>

DoSetInsideOut(b) ==
    /\ cls \in Primitives
    /\ inside_out' = b
    /\ ret' = Ret("inside_out", b, Ok(None))
    /\ UNCHANGED <<threads, cls, tlist, M_rb, M_br, N_rb, pigment, prepared, ray, trans, parent>>

\* a read of the cached attributes self.M_rb, self.M_br, self.N_rb
DoRead ==
    /\ ret' = Ret("read", <<>>,
                  IF NoAttr \in {M_rb, M_br, N_rb} THEN Raise("AttributeError")
                  ELSE Ok(<<M_rb, M_br, N_rb>>))
    /\ UNCHANGED <<threads, cls, tlist, M_rb, M_br, N_rb, pigment, inside_out, prepared,
                 ray, trans, parent>>

DoInside(r) ==
    /\ cls \in Primitives
    /\ ret' = Ret("inside", r, PrimitiveInside(cls, inside_out, M_br, r))
    /\ UNCHANGED <<threads, cls, tlist, M_rb, M_br, N_rb, pigment, inside_out, prepared,
                 ray, trans, parent>>

DoNormal(r) ==
    /\ cls \in Primitives
    /\ ret' = Ret("normal", r, PrimitiveNormal(cls, inside_out, N_rb, M_br, r))
    /\ UNCHANGED <<threads, cls, tlist, M_rb, M_br, N_rb, pigment, inside_out, prepared,
                 ray, trans, parent>>

DoIntersect(wray) ==
    /\ cls \in Primitives
    /\ ret' = Ret("intersect", wray, PrimitiveIntersect(cls, M_br, wray))
    /\ UNCHANGED <<threads, cls, tlist, M_rb, M_br, N_rb, pigment, inside_out, prepared,
                 ray, trans, parent>>

Next ==
    \/ \E T \in Transformations : DoAppend(T)
    \/ DoPrepareRender
    \/ DoCombine
    \/ \E p \in {NonePigment, NewField} : DoSetPigment(p)
    \/ \E b \in BOOLEAN : DoSetInsideOut(b)
    \/ DoRead
    \/ \E r \in QueryPoints : DoInside(r)
    \/ \E r \in QueryPoints : DoNormal(r)
    \/ \E wray \in QueryRays : DoIntersect(wray)

Spec == Init /\ [][Next]_vars

-----------------------------------------------------------------------------
(* Transformation.matrix() as a function of the transformation's parameters *)

\* a triple of coordinates as a (3,1) column and as a (4,1) Direction or
\* Position
As(c, shape) ==
    CASE shape = "col_vector" -> col_vector(c[1], c[2], c[3])
      [] shape = "Direction" -> Direction(c[1], c[2], c[3])
      [] shape = "Position" -> Position(c[1], c[2], c[3])

\* point and toward vectors <<p_b, p_r, t_b, t_r>>, of rational length and
\* with cross products of rational length; some pairs are parallel
PointVectors == {<<1, 0, 0>>, <<0, -1, 0>>, <<0, 0, 1>>, <<3, 4, 0>>, <<0, 0, 2>>}

TowardVectors == {<<1, 0, 0>>, <<0, 1, 0>>, <<0, 0, 1>>, <<0, 0, -1>>}

PointTowardInputs ==
    PointVectors \X PointVectors \X TowardVectors \X TowardVectors

\* pairs <<location, look_at>>
LookPairs ==
    { <<<<0, 0, 0>>, <<0, 0, -10>>>>, <<<<1, 2, 3>>, <<4, 6, 3>>>>,
      <<<<1, 2, 3>>, <<1, 2, 5>>>> }

LocationLookatInputs ==
    {LocationLookat(As(lp[1], w), As(lp[2], w), NoArg, NoArg, NoArg) :
        lp \in LookPairs, w \in {"col_vector", "Position"}}
    \cup
    {LocationLookat(As(lp[1], w), As(lp[2], w), col_vector(0, 0, 1),
                    col_vector(0, 1, 0), col_vector(0, 0, -1)) :
        lp \in LookPairs, w \in {"col_vector", "Position"}}

TransInputs ==
    {Transformation}
    \cup {Translation(x, y, z) : x \in Coords, y \in Coords, z \in Coords}
    \cup {Scaling(x, y, z) : x \in Coords, y \in Coords, z \in Coords}
    \cup {UniformScaling(x) : x \in Coords \cup {2}}
    \cup {RotateScalar(k, axis) : k \in 0..3, axis \in 0..2}
    \cup {RotateVector(qx, qy, qz) : qx \in 0..3, qy \in 0..3, qz \in 0..3}
    \cup {PointToward(As(pt[1], w), As(pt[2], w), As(pt[3], w), As(pt[4], w)) :
             pt \in PointTowardInputs, w \in {"col_vector", "Direction"}}
    \cup LocationLookatInputs

ProbeVectors == { Position(1, 2, 3), Direction(1, 2, 3) }

InitT ==
    /\ trans \in TransInputs
    /\ cls = "Transformable"
    /\ tlist = <<>>
    /\ M_rb = NoAttr
    /\ M_br = NoAttr
    /\ N_rb = NoAttr
    /\ pigment = NoPigmentAttr
    /\ inside_out = FALSE
    /\ prepared = [set |-> FALSE, list |-> <<>>]
    /\ ray = NoRay
    /\ parent = NoParentAttr
    /\ threads = NoThreads
    /\ ret = NoCall

\* trans.matrix()
DoMatrix ==
    /\ ret' = Ret("matrix", <<>>, Matrix(trans))
    /\ UNCHANGED <<threads, cls, tlist, M_rb, M_br, N_rb, pigment, inside_out, prepared,
                 ray, trans, parent>>

\* trans.matrix() @ x
DoMatrixApply(x) ==
    /\ ret' = Ret("apply", x,
                  CHOOSE out \in { IF m.exc # "none" THEN m ELSE Ok(MatVec(m.val, x))
                                   : m \in {Matrix(trans)} } : TRUE)
    /\ UNCHANGED <<threads, cls, tlist, M_rb, M_br, N_rb, pigment, inside_out, prepared,
                 ray, trans, parent>>

NextT ==
    \/ DoMatrix
    \/ \E x \in ProbeVectors : DoMatrixApply(x)

SpecT == InitT /\ [][NextT]_vars

-----------------------------------------------------------------------------
(* The operators of one Ray *)

RayInputs ==
    { Ray(Position(x, y, 1), Direction(a, b, c)) :
        x \in Coords, y \in Coords, a \in Coords, b \in Coords, c \in Coords }

Dts == (-MaxDt)..MaxDt

RayMatrices ==
    { identity4,
      Affine(rot_axis(2, 90), <<0, 0, 0>>),
      Affine(rot_axis(0, 0), <<1, 2, 3>>),
      Affine(rot_axis(1, 90), <<-1, 0, 2>>) }

InitRay ==
    /\ ray \in RayInputs
    /\ cls = "Transformable"
    /\ tlist = <<>>
    /\ M_rb = NoAttr
    /\ M_br = NoAttr
    /\ N_rb = NoAttr
    /\ pigment = NoPigmentAttr
    /\ inside_out = FALSE
    /\ prepared = [set |-> FALSE, list |-> <<>>]
    /\ trans = NoTrans
    /\ parent = NoParentAttr
    /\ threads = NoThreads
    /\ ret = NoCall

\* ray + dt
DoRayAdd(dt) ==
    /\ ret' = Ret("add", dt, Ok(RayAdd(ray, dt)))
    /\ UNCHANGED <<threads, cls, tlist, M_rb, M_br, N_rb, pigment, inside_out, prepared,
                 ray, trans, parent>>

\* dt + ray
DoRayRAdd(dt) ==
    /\ ret' = Ret("radd", dt, Ok(RayRAdd(ray, dt)))
    /\ UNCHANGED <<threads, cls, tlist, M_rb, M_br, N_rb, pigment, inside_out, prepared,
                 ray, trans, parent>>

\* ray += dt: __iadd__ advances self.r0 in place and returns nothing, and
\* the statement binds the name to what __iadd__ returned.  The variable ray
\* is the Ray object, ret.val the value the name denotes afterwards.  The
\* advanced origin is kept within MaxCoord of the initial origins.
DoRayIAdd(dt) ==
    \E r \in {VecAdd(ray.r0, VecScale(ray.v, Q(dt)))} :
        /\ r.d = 1
        /\ \A i \in 1..2 : Abs(r.n[i]) <= MaxCoord
        /\ Abs(r.n[3] - 1) <= MaxCoord
        /\ ray' = Ray(r, ray.v)
        /\ ret' = Ret("iadd", dt, Ok(None))
        /\ UNCHANGED <<threads, cls, tlist, M_rb, M_br, N_rb, pigment, inside_out,
                       prepared, trans, parent>>

\* ray(t)
DoRayCall(t) ==
    /\ ret' = Ret("call", t, Ok(RayCall(ray, t)))
    /\ UNCHANGED <<threads, cls, tlist, M_rb, M_br, N_rb, pigment, inside_out, prepared,
                 ray, trans, parent>>

\* M @ ray
DoRayRMatMul(M) ==
    /\ ret' = Ret("rmatmul", M, RayRMatMul(ray, M))
    /\ UNCHANGED <<threads, cls, tlist, M_rb, M_br, N_rb, pigment, inside_out, prepared,
                 ray, trans, parent>>

NextRay ==
    \/ \E dt \in Dts : DoRayAdd(dt)
    \/ \E dt \in Dts : DoRayRAdd(dt)
    \/ \E dt \in Dts : DoRayIAdd(dt)
    \/ \E t \in Dts : DoRayCall(t)
    \/ \E M \in RayMatrices : DoRayRMatMul(M)

SpecRay == InitRay /\ [][NextRay]_vars

-----------------------------------------------------------------------------
(* The life of one Field, a Transformable of its own, held in pigment *)

FieldTransformations == {UniformScaling(2), RotateScalar(1, 2), Translation(1, 2, 3)}

InitField ==
    /\ pigment \in {NewField, ConstantColor("red"), ConstantColor("blue")}
    /\ cls = "Transformable"
    /\ tlist = <<>>
    /\ M_rb = NoAttr
    /\ M_br = NoAttr
    /\ N_rb = NoAttr
    /\ inside_out = FALSE
    /\ prepared = [set |-> FALSE, list |-> <<>>]
    /\ ray = NoRay
    /\ trans = NoTrans
    /\ parent = NoParentAttr
    /\ threads = NoThreads
    /\ ret = NoCall

\* field.append(T): list.append
DoFieldAppend(T) ==
    /\ pigment.kind \notin {"NoAttr", "None"}
    /\ Len(pigment.list) < MaxLen
    /\ pigment' = [pigment EXCEPT !.list = Append(@, T)]
    /\ ret' = Ret("fieldAppend", T, Ok(None))
    /\ UNCHANGED <<threads, cls, tlist, M_rb, M_br, N_rb, inside_out, prepared,
                   ray, trans, parent>>

\* field.prepareRender()
DoFieldPrepareRender ==
    /\ pigment.kind \notin {"NoAttr", "None"}
    /\ \E out \in {TransformablePrepareRender(pigment.list, pigment.cache)} :
          /\ pigment' = [pigment EXCEPT !.cache = out.cache]
          /\ ret' = Ret("fieldPrepareRender", <<>>,
                        IF out.exc = "none" THEN Ok(None) ELSE Raise(out.exc))
    /\ UNCHANGED <<threads, cls, tlist, M_rb, M_br, N_rb, inside_out, prepared,
                   ray, trans, parent>>

\* field(r)
DoFieldCall(r) ==
    /\ pigment.kind \notin {"NoAttr", "None"}
    /\ ret' = Ret("fieldCall", r, FieldCall(pigment, r))
    /\ UNCHANGED <<threads, cls, tlist, M_rb, M_br, N_rb, pigment, inside_out, prepared,
                   ray, trans, parent>>

\* field.N
DoReadN ==
    /\ pigment.kind \notin {"NoAttr", "None"}
    /\ ret' = Ret("N", <<>>, FieldN(pigment))
    /\ UNCHANGED <<threads, cls, tlist, M_rb, M_br, N_rb, pigment, inside_out, prepared,
                   ray, trans, parent>>

NextField ==
    \/ \E T \in FieldTransformations : DoFieldAppend(T)
    \/ DoFieldPrepareRender
    \/ \E r \in QueryPoints : DoFieldCall(r)
    \/ DoReadN

SpecField == InitField /\ [][NextField]_vars

-----------------------------------------------------------------------------
(* The render queries of one Primitive with a pigment and a chain of       *)
(* parents                                                                 *)

\* a pigment whose prepareRender has run on its empty list
Prepared(f) == [f EXCEPT !.cache = <<identity4, identity4, identity4>>]

AncestorPigments == {NoPigmentAttr, NonePigment, Prepared(ConstantColor("blue"))}

\* the values of Lparent: None, or a Renderable with up to MaxDepth - 1
\* ancestors of its own
ParentInputs ==
    {NoneParent} \cup
    UNION { { [attr |-> "Obj",
               chain |-> [k \in 1..n |->
                            Node(ps[k], IF k < n THEN "Obj" ELSE last)]]
              : ps \in [1..n -> AncestorPigments], last \in {"NoAttr", "None"} }
            : n \in 1..MaxDepth }

\* a constructor that would set the cached matrices to the identity
InitPigmentIdentity ==
    /\ cls = "Shape"
    /\ tlist = <<>>
    /\ M_rb = identity4
    /\ M_br = identity4
    /\ N_rb = identity4
    /\ pigment = NoPigmentAttr
    /\ inside_out = FALSE
    /\ prepared = [set |-> FALSE, list |-> <<>>]
    /\ ray = NoRay
    /\ trans = NoTrans
    /\ parent = NoParentAttr
    /\ threads = NoThreads
    /\ ret = NoCall

InitPigment ==
    /\ cls = "Shape"
    /\ tlist = <<>>
    /\ M_rb = NoAttr
    /\ M_br = NoAttr
    /\ N_rb = NoAttr
    /\ pigment = NoPigmentAttr
    /\ inside_out = FALSE
    /\ prepared = [set |-> FALSE, list |-> <<>>]
    /\ ray = NoRay
    /\ trans = NoTrans
    /\ parent = NoParentAttr
    /\ threads = NoThreads
    /\ ret = NoCall

\* Renderable.setParent
DoSetParent(P) ==
    /\ cls \in Primitives
    /\ parent' = P
    /\ ret' = Ret("setParent", <<>>, Ok(None))
    /\ UNCHANGED <<threads, cls, tlist, M_rb, M_br, N_rb, pigment, inside_out, prepared,
                   ray, trans>>

\* an evalPigment that keeps the pigment it inherited: an object without a
\* pigment of its own stores its parent's
DoEvalPigmentCaching(r) ==
    /\ cls \in Primitives
    /\ ret' = Ret("evalPigment", r, RenderableEvalPigment(pigment, parent, r))
    /\ pigment' = IF pigment.kind = "None" /\ parent.attr = "Obj"
                  THEN parent.chain[1].pigment ELSE pigment
    /\ UNCHANGED <<threads, cls, tlist, M_rb, M_br, N_rb, inside_out, prepared,
                   ray, trans, parent>>

\* Renderable.evalPigment
DoEvalPigment(r) ==
    /\ cls \in Primitives
    /\ ret' = Ret("evalPigment", r, RenderableEvalPigment(pigment, parent, r))
    /\ UNCHANGED <<threads, cls, tlist, M_rb, M_br, N_rb, pigment, inside_out, prepared,
                   ray, trans, parent>>

NextPigment ==
    \/ \E p \in {NonePigment, ConstantColor("red")} : DoSetPigment(p)
    \/ \E P \in ParentInputs : DoSetParent(P)
    \/ \E b \in BOOLEAN : DoSetInsideOut(b)
    \/ DoPrepareRender
    \/ \E r \in QueryPoints : DoEvalPigment(r)
    \/ \E r \in QueryPoints : DoFieldCall(r)
    \/ \E r \in QueryPoints : DoInside(r)
    \/ \E r \in QueryPoints : DoNormal(r)
    \/ \E wray \in QueryRays : DoIntersect(wray)

SpecPigment == InitPigment /\ [][NextPigment]_vars

-----------------------------------------------------------------------------
(* One Transformable set up by one thread, statement by statement, and read *)
(* by concurrent traces.  threads.prep counts the assignments the           *)
(* prepareRender under way has made; a trace reads self.M_rb, self.M_br and *)
(* self.N_rb one attribute at a time into regs; threads.disciplined records *)
(* that every append and prepareRender so far finished before the first     *)
(* trace began.                                                             *)

ConcTransformations == {UniformScaling(2), RotateScalar(1, 3)}

TraceBegun ==
    \E i \in 1..MaxTraces :
        threads.traces[i].pc > 0 \/ threads.traces[i].exc # "none"

InitConc ==
    /\ cls = "Transformable"
    /\ tlist = <<>>
    /\ M_rb = NoAttr
    /\ M_br = NoAttr
    /\ N_rb = NoAttr
    /\ pigment = NoPigmentAttr
    /\ inside_out = FALSE
    /\ prepared = [set |-> FALSE, list |-> <<>>]
    /\ ray = NoRay
    /\ trans = NoTrans
    /\ parent = NoParentAttr
    /\ threads = NoThreads
    /\ ret = NoCall

\* list.append by the set-up thread, between its calls of prepareRender; the
\* thread appends each transformation once
DoConcAppend(T) ==
    /\ threads.prep = 0
    /\ \A k \in 1..Len(tlist) : tlist[k] # T
    /\ tlist' = Append(tlist, T)
    /\ threads' = [threads EXCEPT !.disciplined = @ /\ ~TraceBegun]
    /\ ret' = Ret("append", T, Ok(None))
    /\ UNCHANGED <<cls, M_rb, M_br, N_rb, pigment, inside_out, prepared,
                   ray, trans, parent>>

\* a prepareRender that assigns N_rb only when the attribute does not exist
DoPrepareStepKeepsNormal ==
    /\ CASE threads.prep = 0 ->
              \E c \in {combine(tlist)} :
                 IF c.exc # "none"
                 THEN /\ ret' = Ret("prepareRender", <<>>, Raise(c.exc))
                      /\ threads' = [threads EXCEPT
                                       !.disciplined = @ /\ ~TraceBegun]
                      /\ UNCHANGED <<M_rb, M_br, N_rb, prepared>>
                 ELSE /\ M_rb' = c.val
                      /\ prepared' = [set |-> TRUE, list |-> tlist]
                      /\ threads' = [threads EXCEPT
                                       !.prep = 1,
                                       !.disciplined = @ /\ ~TraceBegun]
                      /\ UNCHANGED <<M_br, N_rb, ret>>
         [] threads.prep = 1 ->
              \E inv \in {InverseMatrix(M_rb)} :
                 IF inv.exc # "none"
                 THEN /\ ret' = Ret("prepareRender", <<>>, Raise(inv.exc))
                      /\ threads' = [threads EXCEPT
                                       !.prep = 0,
                                       !.disciplined = @ /\ ~TraceBegun]
                      /\ UNCHANGED <<M_rb, M_br, N_rb, prepared>>
                 ELSE /\ M_br' = inv.val
                      /\ threads' = [threads EXCEPT
                                       !.prep = 2,
                                       !.disciplined = @ /\ ~TraceBegun]
                      /\ UNCHANGED <<M_rb, N_rb, prepared, ret>>
         [] threads.prep = 2 ->
              /\ N_rb' = IF N_rb = NoAttr THEN NormalMatrix(M_br) ELSE N_rb
              /\ ret' = Ret("prepareRender", <<>>, Ok(None))
              /\ threads' = [threads EXCEPT
                               !.prep = 0,
                               !.disciplined = @ /\ ~TraceBegun]
              /\ UNCHANGED <<M_rb, M_br, prepared>>
    /\ UNCHANGED <<cls, tlist, pigment, inside_out, ray, trans, parent>>

\* the next statement of Transformable.prepareRender in the set-up thread:
\* self.M_rb=self.combine(), then self.M_br=np.linalg.inv(self.M_rb), then
\* self.N_rb=self.M_br.T; an exception ends the call where it is raised
DoPrepareStep ==
    /\ CASE threads.prep = 0 ->
              \E c \in {combine(tlist)} :
                 IF c.exc # "none"
                 THEN /\ ret' = Ret("prepareRender", <<>>, Raise(c.exc))
                      /\ threads' = [threads EXCEPT
                                       !.disciplined = @ /\ ~TraceBegun]
                      /\ UNCHANGED <<M_rb, M_br, N_rb, prepared>>
                 ELSE /\ M_rb' = c.val
                      /\ prepared' = [set |-> TRUE, list |-> tlist]
                      /\ threads' = [threads EXCEPT
                                       !.prep = 1,
                                       !.disciplined = @ /\ ~TraceBegun]
                      /\ UNCHANGED <<M_br, N_rb, ret>>
         [] threads.prep = 1 ->
              \E inv \in {InverseMatrix(M_rb)} :
                 IF inv.exc # "none"
                 THEN /\ ret' = Ret("prepareRender", <<>>, Raise(inv.exc))
                      /\ threads' = [threads EXCEPT
                                       !.prep = 0,
                                       !.disciplined = @ /\ ~TraceBegun]
                      /\ UNCHANGED <<M_rb, M_br, N_rb, prepared>>
                 ELSE /\ M_br' = inv.val
                      /\ threads' = [threads EXCEPT
                                       !.prep = 2,
                                       !.disciplined = @ /\ ~TraceBegun]
                      /\ UNCHANGED <<M_rb, N_rb, prepared, ret>>
         [] threads.prep = 2 ->
              /\ N_rb' = NormalMatrix(M_br)
              /\ ret' = Ret("prepareRender", <<>>, Ok(None))
              /\ threads' = [threads EXCEPT
                               !.prep = 0,
                               !.disciplined = @ /\ ~TraceBegun]
              /\ UNCHANGED <<M_rb, M_br, prepared>>
    /\ UNCHANGED <<cls, tlist, pigment, inside_out, ray, trans, parent>>

\* trace i reads the next of self.M_rb, self.M_br, self.N_rb; the read of an
\* attribute that does not exist raises AttributeError and ends the trace.
\* Traces are alike, so they begin in the order of their numbers.
DoTraceRead(i) ==
    /\ threads.traces[i].pc < 3
    /\ threads.traces[i].exc = "none"
    /\ i > 1 => (threads.traces[i - 1].pc > 0
                   \/ threads.traces[i - 1].exc # "none")
    /\ \E k \in {threads.traces[i].pc + 1} :
       \E a \in {<<M_rb, M_br, N_rb>>[k]} :
          threads' = [threads EXCEPT
             !.traces[i] = IF a = NoAttr
                           THEN [@ EXCEPT !.exc = "AttributeError"]
                           ELSE [@ EXCEPT !.pc = k, !.regs[k] = a],
             !.disciplined = @ /\ (k > 1 \/ threads.prep = 0)]
    /\ UNCHANGED <<cls, tlist, M_rb, M_br, N_rb, pigment, inside_out,
                   prepared, ray, trans, parent, ret>>

NextConc ==
    \/ \E T \in ConcTransformations : DoConcAppend(T)
    \/ DoPrepareStep
    \/ \E i \in 1..MaxTraces : DoTraceRead(i)

SpecConc == InitConc /\ [][NextConc]_vars

-----------------------------------------------------------------------------
(* Properties *)

\* the three matrices prepareRender derives from list l (combine() succeeding)
CacheOf(l) ==
    LET m == combine(l).val
        i == Inv(m).val
    IN  <<m, i, Transpose(i)>>

\* T1, then T2, ... applied to x one after another
RECURSIVE ApplyFrom(_, _, _)
ApplyFrom(l, k, x) ==
    IF k > Len(l) THEN Ok(x)
    ELSE LET m == Matrix(l[k])
         IN  IF m.exc # "none" THEN m ELSE ApplyFrom(l, k + 1, MatVec(m.val, x))

\* Tn.matrix() . ... . T1.matrix() for the first n transformations of l
RECURSIVE Product(_, _)
Product(l, n) ==
    IF n = 0 THEN identity4 ELSE MatMul(Matrix(l[n]).val, Product(l, n - 1))

\* C1 as stated: every read of M_rb, M_br, N_rb that succeeds returns the
\* matrices computed from the transformation list as it is at the read, so
\* no read ever returns matrices of an older list.
C1_NoStaleRead ==
    (ret.op = "read" /\ ret.exc = "none") =>
        (combine(tlist).exc = "none" /\ ret.val = CacheOf(tlist))

\* C1 amended: a read returns the matrices computed by the latest
\* prepareRender, from the list as it was at that call; an append neither
\* recomputes nor removes them; a read fails only before the first
\* prepareRender.
C1_ReadReturnsLastPrepared ==
    /\ (ret.op = "read" /\ ret.exc = "none") =>
          (prepared.set /\ ret.val = CacheOf(prepared.list))
    /\ (ret.op = "read" /\ ret.exc # "none") => ~prepared.set

\* a read after an append that followed prepareRender
C1_StaleReadWitness ==
    /\ ret.op = "read"
    /\ ret.exc = "none"
    /\ prepared.list # tlist
    /\ combine(tlist).exc = "none"
    /\ ret.val # CacheOf(tlist)

\* C2: combine() returns Tn.matrix() . ... . T1.matrix() (the identity for an
\* empty list), so combine() @ r is T1, then T2, ..., then Tn applied to r in
\* turn, for every Position r; it raises exactly when one of the matrix()
\* calls does.
C2_CombineIsSequentialApplication ==
    ret.op = "combine" =>
        /\ tlist = <<>> => (ret.exc = "none" /\ ret.val = identity4)
        /\ \A r \in QueryPoints :
              LET seq == ApplyFrom(tlist, 1, r)
              IN  /\ ret.exc = seq.exc
                  /\ ret.exc = "none" =>
                        /\ MatVec(ret.val, r) = seq.val
                        /\ ret.val = Product(tlist, Len(tlist))

\* combine() of two transformations that do not commute
C2_OrderWitness ==
    /\ ret.op = "combine"
    /\ ret.exc = "none"
    /\ Len(tlist) = 2
    /\ MatMul(Matrix(tlist[1]).val, Matrix(tlist[2]).val)
         # MatMul(Matrix(tlist[2]).val, Matrix(tlist[1]).val)

\* C3: after prepareRender has returned, and as long as the list has not been
\* appended to since the matrices were written, M_rb = combine() of the list,
\* M_br . M_rb is the identity and N_rb is the transpose of M_br.
C3_PreparedTriple ==
    /\ (ret.op = "prepareRender" /\ ret.exc = "none") =>
          (prepared.set /\ prepared.list = tlist)
    /\ (prepared.set /\ prepared.list = tlist) =>
          /\ combine(tlist).exc = "none"
          /\ M_rb = combine(tlist).val
          /\ M_br # NoAttr
          /\ N_rb # NoAttr
          /\ MatMul(M_br, M_rb) = identity4
          /\ N_rb = Transpose(M_br)

\* a prepared two-transformation object, neither orthogonal nor symmetric,
\* queried after prepareRender
C3_PreparedWitness ==
    /\ ret.op = "read"
    /\ ret.exc = "none"
    /\ prepared.set
    /\ prepared.list = tlist
    /\ Len(tlist) = 2
    /\ N_rb # M_rb
    /\ N_rb # M_br

\* Translation(D) applied to x: x + D for a Position, x for a Direction
Translated(D, x) ==
    [n |-> [i \in Idx |-> IF i = 4 THEN x.n[4] ELSE x.n[i] + D[i] * x.n[4]],
     d |-> x.d]

\* C4: Translation(D).matrix() is the identity with its fourth column set to
\* D; applied to a Position it adds D and applied to a Direction it changes
\* nothing.
C4_TranslationMatrix ==
    trans.kind = "Translation" =>
        /\ ret.op = "matrix" =>
              (ret.exc = "none" /\ ret.val = Affine(identity4.n, trans.amount))
        /\ ret.op = "apply" =>
              (ret.exc = "none" /\ ret.val = Translated(trans.amount, ret.arg))

\* a scale factor with the zero substitution made
NonZero(x) == IF x = 0 THEN 1 ELSE x

\* the diagonal (4,4) array of three scale factors
Diagonal(x, y, z) ==
    [n |-> <<<<x, 0, 0, 0>>, <<0, y, 0, 0>>, <<0, 0, z, 0>>, <<0, 0, 0, 1>>>>,
     d |-> 1]

\* C5: Scaling.matrix() and UniformScaling.matrix() are the diagonal matrices
\* of the scale factors with every zero factor replaced by 1, axis by axis,
\* hence never singular and equal to the matrix of the transformation that
\* has 1 where this one has 0; non-zero factors are used as given.
C5_ZeroScaleIsOne ==
    ret.op = "matrix" =>
        /\ trans.kind = "Scaling" =>
              /\ ret.exc = "none"
              /\ ret.val = Diagonal(NonZero(trans.amount[1]),
                                    NonZero(trans.amount[2]),
                                    NonZero(trans.amount[3]))
              /\ Det4(ret.val.n) # 0
              /\ ret.val = Matrix(Scaling(NonZero(trans.amount[1]),
                                          NonZero(trans.amount[2]),
                                          NonZero(trans.amount[3]))).val
        /\ trans.kind = "UniformScaling" =>
              /\ ret.exc = "none"
              /\ ret.val = Diagonal(NonZero(trans.amount), NonZero(trans.amount),
                                    NonZero(trans.amount))
              /\ Det4(ret.val.n) # 0
              /\ ret.val = Matrix(UniformScaling(NonZero(trans.amount))).val

\* the matrix of a Scaling with zero z, zero x and non-zero y factor
C5_ZeroScaleWitness ==
    /\ ret.op = "matrix"
    /\ trans.kind = "Scaling"
    /\ trans.amount[3] = 0
    /\ trans.amount[1] = 0
    /\ trans.amount[2] = -1
    /\ ret.exc = "none"

\* a primitive with a pigment setting whose prepareRender wrote the cached
\* matrices from the list as it is now
PreparedPrimitive ==
    /\ cls = "Shape"
    /\ pigment.kind # "NoAttr"
    /\ prepared.set
    /\ prepared.list = tlist
    /\ M_br # NoAttr
    /\ N_rb # NoAttr

\* C6: Primitive.intersect on a prepared primitive transforms the ray by
\* M_br, runs the local intersection test on it and returns the pair
\* (primitive, t) when the test reports a hit, (none, ...) otherwise.
C6_IntersectReturnsPair ==
    (ret.op = "intersect" /\ PreparedPrimitive) =>
        /\ ret.exc = "none"
        /\ LET loc == intersectLocal(Ray(MatVec(M_br, ret.arg.r0),
                                         MatVec(M_br, ret.arg.v)))
           IN  /\ Len(ret.val) = 2
               /\ loc[1] => (ret.val[1] = "self" /\ ret.val[2] = loc[2])
               /\ ~loc[1] => ret.val[1] = None

\* C7: M @ ray is a new Ray with origin M . r0 (w stays 1) and direction
\* M . v (w stays 0), the ray itself being left as it was.
C7_RayTransform ==
    ret.op = "rmatmul" =>
        /\ ret.exc = "none"
        /\ ret.val = Ray(MatVec(ret.arg, ray.r0), MatVec(ret.arg, ray.v))
        /\ ret.val.r0.n[4] = ret.val.r0.d
        /\ ret.val.v.n[4] = 0

\* C8: r + dt and dt + r are a new Ray with origin r(dt) and the direction of
\* r, for which r'(t) = r(t + dt) at every t; r is left as it was.
C8_AdvanceIdentity ==
    /\ [](ret.op \in {"add", "radd"} =>
            /\ ret.exc = "none"
            /\ ret.val.r0 = RayCall(ray, ret.arg)
            /\ ret.val.v = ray.v
            /\ \A t \in Dts : RayCall(ret.val, t) = RayCall(ray, t + ret.arg))
    /\ [][ret'.op \in {"add", "radd"} => ray' = ray]_vars

\* an advance by a non-zero dt of a ray with a non-zero direction
C8_AdvanceWitness ==
    /\ ret.op = "add"
    /\ ret.arg = 2
    /\ ray.v = Direction(1, -1, 1)
    /\ ret.val.r0 # ray.r0

\* C9: Primitive.inside(r) on a prepared primitive is
\* insideLocal(M_br . r) XOR inside_out.
C9_InsideXor ==
    (ret.op = "inside" /\ PreparedPrimitive) =>
        /\ ret.exc = "none"
        /\ ret.val = (inside_out # insideLocal(MatVec(M_br, ret.arg)))

\* C10: Primitive.normal(r) on a prepared primitive is the (4,1) Direction
\* normalize(N_rb . normalLocal(M_br . r)), the matrix-vector product,
\* negated exactly when inside_out is set.
C10_NormalFormula ==
    (ret.op = "normal" /\ PreparedPrimitive) =>
        /\ ret.exc = "none"
        /\ ret.val.shape = <<4, 1>>
        /\ ret.val.value =
              SignTimes(IF inside_out THEN -1 ELSE 1,
                        vnormalize(MatVec(N_rb, normalLocal(MatVec(M_br, ret.arg)))))

\* the transformations under which a surface normal keeps its angles
IsRigidOrUniform(l) ==
    \A k \in 1..Len(l) :
        l[k].kind \in {"RotateScalar", "UniformScaling", "Translation"}

\* C11: on a prepared primitive whose list holds only rotations, uniform
\* scalings and translations, normal(r) at a point r of the surface is a
\* (4,1) Direction of unit length: its w component is 0 and it is finite.
C11_UnitNormal ==
    (ret.op = "normal" /\ PreparedPrimitive /\ IsRigidOrUniform(tlist)
        /\ MatVec(M_br, ret.arg).n[3] = 0) =>
        /\ ret.exc = "none"
        /\ ret.val.shape = <<4, 1>>
        /\ ret.val.value.n[4] = 0
        /\ ret.val.value # NaN4

\* C13: Renderable.append(T) succeeds, appends T to the end of the object's
\* own list and, when the object has a pigment, to the end of the pigment's
\* list; without a pigment only the object's own list changes.
C13_AppendReachesPigment ==
    [][(ret'.op = "append" /\ cls \in Primitives) =>
          /\ ret'.exc = "none"
          /\ tlist' = Append(tlist, ret'.arg)
          /\ IF pigment.kind \notin {"NoAttr", "None"}
             THEN pigment'.list = Append(pigment.list, ret'.arg)
             ELSE pigment' = pigment]_vars

C15_AbstractRaisesNotImplemented ==
    /\ (ret.op = "matrix" /\ trans.kind = "Transformation") =>
          ret.exc = "NotImplementedError"
    /\ (ret.op \in {"intersect", "normal", "inside"} /\ cls = "Primitive"
          /\ pigment.kind # "NoAttr" /\ prepared.set /\ prepared.list = tlist
          /\ M_br # NoAttr /\ N_rb # NoAttr) =>
          ret.exc = "NotImplementedError"

\* the value of the pigment of the nearest object of a chain, from the k-th
\* on, that has one; None when no object of the chain has a pigment
RECURSIVE NearestPigmentValue(_, _)
NearestPigmentValue(chain, k) ==
    IF k > Len(chain) THEN None
    ELSE IF chain[k].pigment.kind \notin {"NoAttr", "None"}
         THEN chain[k].pigment.value
         ELSE NearestPigmentValue(chain, k + 1)

\* C12: evalPigment(r) returns the value of the object's own pigment if it
\* has one, otherwise that of its nearest ancestor that has one, and None
\* when no object of the chain has a pigment, also when setPigment or
\* setParent were never called or the pigment was removed by
\* setPigment(None).
C12_EvalPigmentInherits ==
    ret.op = "evalPigment" =>
        /\ ret.exc = "none"
        /\ ret.val = NearestPigmentValue(
                        <<Node(pigment, parent.attr)>> \o parent.chain, 1)

\* the (4,1) Direction with the three leading components of a column
Dir4(v) == [n |-> <<v.n[1], v.n[2], v.n[3], 0>>, d |-> v.d]

\* the three leading components of a column
Lead3(v) == <<v.n[1], v.n[2], v.n[3]>>

\* p not parallel to t, in the body frame and in the reference frame
NonDegenerate(t) ==
    /\ Lead3(vcross(t.p_b, t.t_b)) # <<0, 0, 0>>
    /\ Lead3(vcross(t.p_r, t.t_r)) # <<0, 0, 0>>

\* the basis p^, s^ = normalize(p x t), u^ = normalize(p x s) of one frame
BasisOf(p, t) ==
    LET s == vlengthNormalize(vcross(p, t))
    IN  <<vlengthNormalize(p), s, vlengthNormalize(vcross(p, s))>>

\* C16: for p not parallel to t in either frame, with (3,1) inputs and with
\* (4,1) Direction inputs alike, calcPointToward returns a (4,4) matrix M
\* without translation, orthonormal, that maps p^_b, s^_b, u^_b onto
\* p^_r, s^_r, u^_r exactly.
C16_PointTowardMapsBasis ==
    (ret.op = "matrix" /\ trans.kind = "PointToward" /\ NonDegenerate(trans)) =>
        /\ ret.exc = "none"
        /\ \A i \in 1..3 : ret.val.n[i][4] = 0 /\ ret.val.n[4][i] = 0
        /\ ret.val.n[4][4] = ret.val.d
        /\ MatMul(Transpose(ret.val), ret.val) = identity4
        /\ \A k \in 1..3 :
              MatVec(ret.val, Dir4(BasisOf(trans.p_b, trans.t_b)[k]))
                = Dir4(BasisOf(trans.p_r, trans.t_r)[k])

\* C17: LocationLookat(location=(0,0,0), look_at=(0,0,-10)) with the default
\* p_b, t_b and t_r has a finite matrix that maps p_b = +Z onto the
\* direction (0,0,-1).
C17_LookAtDefault ==
    (ret.op = "matrix" /\ trans.kind = "LocationLookat"
        /\ Lead3(trans.location) = <<0, 0, 0>>
        /\ Lead3(trans.look_at) = <<0, 0, -10>>
        /\ trans.p_b = Direction(0, 0, 1)
        /\ trans.t_b = Direction(0, 1, 0)
        /\ trans.t_r = Direction(0, 0, -1)) =>
        /\ ret.exc = "none"
        /\ ret.val.d # 0
        /\ MatVec(ret.val, Direction(0, 0, 1)) = Direction(0, 0, -1)

\* look_at - location, component by component
LookDirection(t) ==
    [k \in 1..3 |-> t.look_at.n[k] - t.location.n[k]]

\* C18: LocationLookat.matrix() is Translation(location).matrix() times
\* PointToward(p_b, look_at - location, t_b, t_r).matrix(); it maps the body
\* origin to location and p_b to the direction from location to look_at.
C18_LookAtIsTranslatedPointToward ==
    (ret.op = "matrix" /\ trans.kind = "LocationLookat") =>
        LET T == Matrix(Translation(trans.location.n[1], trans.location.n[2],
                                    trans.location.n[3]))
            P == Matrix(PointToward(trans.p_b, col_vector(LookDirection(trans)[1],
                                                          LookDirection(trans)[2],
                                                          LookDirection(trans)[3]),
                                    trans.t_b, trans.t_r))
        IN  /\ ret.exc = "none"
            /\ T.exc = "none"
            /\ P.exc = "none"
            /\ ret.val = MatMul(T.val, P.val)
            /\ Lead3(MatVec(ret.val, Position(0, 0, 0))) = Lead3(trans.location)

\* C19: when p is parallel to t in either frame calcPointToward raises
\* nothing and returns a matrix with non-finite entries.
C19_ParallelGivesNonFinite ==
    (ret.op = "matrix" /\ trans.kind = "PointToward" /\ ~NonDegenerate(trans)) =>
        /\ ret.exc = "none"
        /\ ret.val.d = 0

\* the matrix of the rotation by a about one axis
AxisMatrix(axis, a) == Affine(rot_axis(axis, a), <<0, 0, 0>>)

\* C20: RotateVector(ax, ay, az).matrix() is Rz(az) . Ry(ay) . Rx(ax): applied
\* to a vector it rotates about X first, then Y, then Z, and it differs from
\* the composition in the opposite order when the rotations do not commute,
\* as for 90 degrees about X and 90 degrees about Y.
C20_RotateVectorOrder ==
    trans.kind = "RotateVector" =>
        LET Rx == AxisMatrix(0, trans.amount[1])
            Ry == AxisMatrix(1, trans.amount[2])
            Rz == AxisMatrix(2, trans.amount[3])
        IN  /\ ret.op = "matrix" =>
                  /\ ret.exc = "none"
                  /\ ret.val = MatMul(Rz, MatMul(Ry, Rx))
                  /\ (trans.amount = <<90, 90, 0>>) =>
                        ret.val # MatMul(Rx, MatMul(Ry, Rz))
            /\ ret.op = "apply" =>
                  /\ ret.exc = "none"
                  /\ ret.val = MatVec(Rz, MatVec(Ry, MatVec(Rx, ret.arg)))

\* the matrix of 90 degrees about X followed by 90 degrees about Y, which is
\* not the matrix of the opposite order
C20_OrderWitness ==
    /\ ret.op = "matrix"
    /\ trans.kind = "RotateVector"
    /\ trans.amount = <<90, 90, 0>>
    /\ ret.exc = "none"
    /\ ret.val # MatMul(AxisMatrix(0, 90), AxisMatrix(1, 90))

\* C21: evaluating a prepared Field at a world Position r returns its local
\* function applied to M_br . r; for a ConstantColor that is the stored
\* value, for every position and every transformation list.
C21_FieldEvaluation ==
    (ret.op = "fieldCall" /\ pigment.cache[2] # NoAttr) =>
        LET loc == FieldLocal(pigment, MatVec(pigment.cache[2], ret.arg))
        IN  /\ ret.exc = loc.exc
            /\ ret.val = loc.val
            /\ pigment.kind = "ConstantColor" =>
                  (ret.exc = "none" /\ ret.val = pigment.value)

\* C22: every ColorField instance, a ConstantColor included, has N = 5 from
\* its construction on.
C22_ColorFieldSizeIsFive ==
    ret.op = "N" => (ret.exc = "none" /\ ret.val = ColorFieldN)

\* C23: the render-phase queries intersect, inside, normal, evalPigment and
\* the evaluation of a Field are read-only: whether they return or raise,
\* the transformation list, the cached M_rb, M_br, N_rb, the pigment, the
\* parent reference and inside_out are left as they were.
C23_QueriesAreReadOnly ==
    [][ret'.op \in {"intersect", "inside", "normal", "evalPigment", "fieldCall"}
          => UNCHANGED <<cls, tlist, M_rb, M_br, N_rb, pigment, parent,
                         inside_out, ray>>]_vars

\* a query that returned on a prepared primitive with a pigment of its own
\* and a parent
C23_QueryWitness ==
    /\ ret.op = "normal"
    /\ ret.exc = "none"
    /\ prepared.set
    /\ pigment.kind = "ConstantColor"
    /\ pigment.cache[2] # NoAttr
    /\ parent.attr = "Obj"
    /\ inside_out

\* C27: a query made on an object whose prepareRender has never written the
\* cached matrices never returns a result: intersect, inside and normal on
\* an unprepared primitive and the evaluation of an unprepared Field all
\* raise.
C27_UnpreparedQueryFails ==
    /\ (ret.op \in {"intersect", "inside", "normal"} /\ ~prepared.set) =>
          ret.exc # "none"
    /\ (ret.op = "fieldCall" /\ pigment.cache[2] = NoAttr) => ret.exc # "none"

\* normal() on a primitive that has a pigment but was never prepared
C27_UnpreparedWitness ==
    /\ ret.op = "normal"
    /\ ~prepared.set
    /\ M_br = NoAttr
    /\ pigment.kind = "ConstantColor"
    /\ ret.exc = "AttributeError"

\* C25: Renderable.prepareRender returns normally with the Renderable's own
\* triple recomputed from its list and, when a pigment is present, with the
\* pigment's triple recomputed from the pigment's list; when no pigment is
\* present it recomputes only its own triple and succeeds (lists whose
\* product can be formed).
C25_PrepareRenderRefreshesBoth ==
    ( /\ ret.op = "prepareRender"
      /\ cls \in Primitives
      /\ combine(tlist).exc = "none"
      /\ (pigment.kind \notin {"NoAttr", "None"} =>
             combine(pigment.list).exc = "none") ) =>
        /\ ret.exc = "none"
        /\ <<M_rb, M_br, N_rb>> = CacheOf(tlist)
        /\ (pigment.kind \notin {"NoAttr", "None"} =>
               pigment.cache = CacheOf(pigment.list))

\* C26: after the statement ray += dt the name ray denotes a Ray with the
\* direction of the old ray and the origin advanced, so that
\* ray(t) = oldray(t + dt) at every t.
C26_InPlaceAdvance ==
    [][ret'.op = "iadd" =>
          /\ ret'.exc = "none"
          /\ ret'.val # None
          /\ ret'.val.v = ray.v
          /\ \A t \in Dts : RayCall(ret'.val, t) = RayCall(ray, t + ret'.arg)]_vars

\* C24: when every append and every prepareRender finished before the first
\* trace began, each trace reads, under every interleaving with the other
\* traces, the triple written by the last prepareRender, with the M_br it
\* reads the inverse of the M_rb it reads and the N_rb it reads the transpose
\* of that M_br; a trace that read a mutually inconsistent triple shows that
\* the ordering was violated.
C24_DisciplinedTracesConsistent ==
    /\ threads.disciplined =>
          \A i \in 1..MaxTraces :
             LET t == threads.traces[i]
             IN  /\ prepared.set => t.exc = "none"
                 /\ \A k \in 1..t.pc : t.regs[k] = CacheOf(prepared.list)[k]
                 /\ t.pc >= 2 => InverseMatrix(t.regs[1]) = Ok(t.regs[2])
                 /\ t.pc = 3 => t.regs[3] = Transpose(t.regs[2])
    /\ \A i \in 1..MaxTraces :
          LET t == threads.traces[i]
          IN  ( /\ t.pc = 3
                /\ \/ InverseMatrix(t.regs[1]).val # t.regs[2]
                   \/ t.regs[3] # Transpose(t.regs[2]) ) =>
                 ~threads.disciplined

\* every trace has read the whole triple of a list of a scaling and a
\* rotation, prepared before the first of them began
C24_DisciplinedWitness ==
    /\ threads.disciplined
    /\ \A i \in 1..MaxTraces : threads.traces[i].pc = 3
    /\ prepared.list = <<UniformScaling(2), RotateScalar(1, 3)>>
    /\ tlist = prepared.list
    /\ M_br # N_rb

====
